---- MODULE Spec2Model ----
(***************************************************************************)
(* Memory-operand classification of VC4C's intermediate representation,    *)
(* src/src/intermediate/MemoryInstruction.cpp, and the loop analyses       *)
(* declared in src/src/analysis/ControlFlowLoop.h, and the data handles    *)
(* and standard-library lookup of the precompiler front end,               *)
(* src/src/precompilation/FrontendCompiler.h.                              *)
(*                                                                         *)
(* The state is a small IR: an arena of locals, the instructions writing   *)
(* them, the memory instructions constructed so far, and the outcome of    *)
(* the most recent call.  A call either returns, raises a CompilationError *)
(* or never returns (unbounded recursion, which overflows the stack).      *)
(***************************************************************************)
EXTENDS Integers, Sequences, FiniteSets, TLC

VARIABLES locals, instrs, mems, last

\* the state of the memory-operand classification
memoryVars == <<locals, instrs, mems, last>>

\* The loop analyses: the control-flow graph and the natural loop under
\* construction; the flat loop list and its inclusion tree; an induction
\* variable and the answers of its queries; a loop body and the
\* instructions marked invariant so far.
VARIABLES cfg, loop, flat, tree, induction, answer, body, invariants

loopVars == <<cfg, loop, flat, tree, induction, answer, body, invariants>>

\* The precompiler front end: the folders holding standard-library files,
\* the cached table of their locations and the lookups answered so far, in
\* the order of the calls; the PrecompilationResult and PrecompilationSource objects alive
\* and the outcome of the most recent operation on them.
VARIABLES installed, stdlib, lookups, resultHandles, sourceHandles, made

frontendVars == <<installed, stdlib, lookups, resultHandles, sourceHandles, made>>

vars == <<locals, instrs, mems, last, cfg, loop, flat, tree, induction, answer,
          body, invariants, installed, stdlib, lookups, resultHandles,
          sourceHandles, made>>

(***************************************************************************)
(* Bounds of the model.                                                    *)
(***************************************************************************)
\* non-memory instructions added to the IR
MaxInstrs == 2

(***************************************************************************)
(* Program constants.  Both are declared outside the translated sources    *)
(* (periphery/VPM.h, GlobalValues.h); the capacity is kept in units that   *)
(* make capacity / NUM_QPUS an element width, so that the boundary         *)
(* width * NUM_QPUS = capacity is an input.                                *)
(***************************************************************************)
NUM_QPUS == 12
VPM_DEFAULT_SIZE == 24

(***************************************************************************)
(* Data model: DataType, Local, Value.                                     *)
(***************************************************************************)
AddressSpaces == {"GLOBAL", "LOCAL", "PRIVATE"}
ElementKinds == {"scalar", "array", "struct", "arrayOfStruct"}
\* physical widths of the VPM storage type of an element type
ElementWidths ==
    {1, VPM_DEFAULT_SIZE \div NUM_QPUS, VPM_DEFAULT_SIZE, VPM_DEFAULT_SIZE + 1}

\* DataType: ptr = getPointerType() is set, as = its addressSpace,
\* elem = shape of getElementType(), width = physical width of
\* VPM::getVPMStorageType(getElementType()), arr = getArrayType() is set
DataType(ptr, as, elem, width) ==
    [ptr |-> ptr, as |-> as, elem |-> elem, width |-> width, arr |-> FALSE]

TYPE_POINTER == DataType(TRUE, "GLOBAL", "scalar", 1)
TYPE_INT == DataType(FALSE, "PRIVATE", "scalar", 1)
\* an array of integers
TYPE_ARRAY == [TYPE_INT EXCEPT !.arr = TRUE]

\* Local: kind tag, Global::isConstant, type, reference (0: none)
Local(kind, isConstant, type, reference) ==
    [kind |-> kind, isConstant |-> isConstant, type |-> type,
     reference |-> reference]

\* Value referring to a local; its type is the local's
LocalValue(l) == [isLocal |-> TRUE, local |-> l, literal |-> 0, ptr |-> FALSE]
\* Value holding a literal of integer type
LiteralValue(n) == [isLocal |-> FALSE, local |-> 0, literal |-> n, ptr |-> FALSE]
\* Value that is no local but has pointer type (a null pointer constant)
POINTER_NULL == [isLocal |-> FALSE, local |-> 0, literal |-> 0, ptr |-> TRUE]
INT_ONE == LiteralValue(1)

LocalIds == 1..Len(locals)

\* Value::checkLocal
checkLocal(val) == val.isLocal

\* Value::type.getPointerType()
getPointerType(val) ==
    IF val.isLocal THEN locals[val.local].type.ptr ELSE val.ptr

\* the type of a Value: that of its local, or of the constant
typeOf(val) ==
    IF val.isLocal THEN locals[val.local].type
    ELSE IF val.ptr THEN TYPE_POINTER ELSE TYPE_INT

\* Value::getLiteralValue() has a value
isLiteralValue(val) == ~val.isLocal /\ ~val.ptr

\* Local::getBase(true): follow the references to the origin
RECURSIVE getBase(_)
getBase(l) ==
    IF locals[l].reference = 0 THEN l ELSE getBase(locals[l].reference)

\* Local::residesInMemory(): overridden to true by Global and StackAllocation
residesInMemory(l) == locals[l].kind \in {"Global", "StackAllocation"}

\* Local::is<T>()
is(l, kind) == locals[l].kind = kind

(***************************************************************************)
(* Instructions.  instrs holds the non-memory instructions, each with its  *)
(* output local and two arguments (a move reads only the first).  mems     *)
(* holds the memory instruction under classification, once constructed.    *)
(* Every instruction is a WRITER of its output local and a READER of its   *)
(* argument locals.                                                        *)
(***************************************************************************)
Instruction(kind, op, out, a, b) ==
    [kind |-> kind, op |-> op, out |-> out, a |-> a, b |-> b]

MemoryOperations == {"COPY", "FILL", "READ", "WRITE"}

MemIds == 1..Len(mems)

\* the memory instruction seen as a user of its locals
AsUser(m) == Instruction("memory", m.op, IF m.dest.isLocal THEN m.dest.local ELSE 0,
                         m.src, m.num)

MemUsers == {AsUser(mems[i]) : i \in MemIds}

\* Local::forUsers(LocalUse::Type::WRITER, ...)
Writers(l) == {u \in instrs \cup MemUsers : u.out = l}

\* the READER users
Readers(l) ==
    {u \in instrs \cup MemUsers :
        \/ (u.a.isLocal /\ u.a.local = l)
        \/ (u.kind # "move" /\ u.kind # "other" /\ u.b.isLocal /\ u.b.local = l)}

\* Local::getUsers()
getUsers(l) == Writers(l) \cup Readers(l)

(***************************************************************************)
(* isDerivedFromMemory (lines 18-60).  The verdict of one writer is        *)
(* "keep" (allSourcesDerivedFromMemory untouched), "false" (reset), or     *)
(* "overflow" when the recursion into a move's source never returns.       *)
(***************************************************************************)
\* lines 33-49: an Operation writer
OperationVerdict_TwoPointers(user) ==
    IF user.op # "add" /\ user.op # "sub" THEN "false"
    ELSE IF checkLocal(user.a) /\ getPointerType(user.a) THEN "keep"
    ELSE IF checkLocal(user.b) /\ getPointerType(user.b) THEN "keep"
    ELSE "false"

OperationVerdict(user) ==
    IF user.op # "add" /\ user.op # "sub" THEN "false"
    ELSE IF checkLocal(user.a) /\ getPointerType(user.a) /\ ~getPointerType(user.b)
    THEN "keep"
    ELSE IF checkLocal(user.b) /\ ~getPointerType(user.a) /\ getPointerType(user.b)
    THEN "keep"
    ELSE "false"

\* lines 31-32: a MemoryInstruction writer is skipped
MemoryWriterVerdict(user) == "keep"

\* lines 50-56: unknown / not handled operation, assume worst
UnhandledVerdict(user) == "false"

\* line 21: the base resides in memory or is a Parameter
BaseIsMemory(local) ==
    residesInMemory(getBase(local)) \/ is(getBase(local), "Parameter")

\* active: the locals whose call has not returned yet
RECURSIVE isDerivedFromMemoryRec(_, _)
isDerivedFromMemoryRec(local, active) ==
    IF BaseIsMemory(local) THEN "true"
    ELSE IF local \in active THEN "overflow"
    ELSE LET verdict(user) ==
                 IF user.kind = "move" /\ checkLocal(user.a)
                 THEN LET r == isDerivedFromMemoryRec(user.a.local,
                                                      active \cup {local})
                      IN  IF r = "true" THEN "keep" ELSE r
                 ELSE IF user.kind = "memory" THEN MemoryWriterVerdict(user)
                 ELSE IF user.kind = "op" THEN OperationVerdict(user)
                 ELSE UnhandledVerdict(user)
             verdicts == {verdict(user) : user \in Writers(local)}
         IN  IF "overflow" \in verdicts THEN "overflow"
             ELSE IF "false" \in verdicts THEN "false"
             ELSE "true"

\* "true", "false", or "overflow" when the call never returns
isDerivedFromMemory(local) == isDerivedFromMemoryRec(local, {})

(***************************************************************************)
(* Outcome of a call: it returned (bool / areas hold the result), raised a *)
(* CompilationError, or overflowed the stack.                              *)
(***************************************************************************)
\* the DataType a query returns: the operand's type itself ("value"), the
\* type it points to ("element") or an array of that type ("array")
ResultType(shape, of, length) == [shape |-> shape, of |-> of, length |-> length]
NoType == ResultType("none", TYPE_INT, 0)

Returned(b) == [outcome |-> "returned", bool |-> b, areas |-> {}, type |-> NoType]
ReturnedAreas(s) == [outcome |-> "returned", bool |-> FALSE, areas |-> s, type |-> NoType]
ReturnedType(t) == [outcome |-> "returned", bool |-> FALSE, areas |-> {}, type |-> t]
Thrown == [outcome |-> "error", bool |-> FALSE, areas |-> {}, type |-> NoType]
Overflow == [outcome |-> "overflow", bool |-> FALSE, areas |-> {}, type |-> NoType]

\* the outcome of `first; second`
Then(first, second) == IF first.outcome = "returned" THEN second ELSE first

(***************************************************************************)
(* The validation helpers (lines 62-90).                                   *)
(***************************************************************************)
\* lines 62-74
checkMemoryLocation(val) ==
    IF ~getPointerType(val) THEN Thrown
    ELSE IF ~checkLocal(val) THEN Thrown
    ELSE IF isDerivedFromMemory(val.local) = "overflow" THEN Overflow
    ELSE IF isDerivedFromMemory(val.local) = "false" THEN Thrown
    ELSE Returned(TRUE)

\* lines 76-83
checkLocalValue_ThroughBase(val) ==
    IF checkLocal(val)
        /\ (\/ residesInMemory(getBase(val.local))
            \/ (is(getBase(val.local), "Parameter")
                   /\ (locals[getBase(val.local)].type.ptr
                          \/ locals[getBase(val.local)].type.arr)))
    THEN Thrown
    ELSE Returned(TRUE)

checkLocalValue(val) ==
    IF checkLocal(val)
        /\ (\/ residesInMemory(val.local)
            \/ (is(val.local, "Parameter")
                   /\ (locals[val.local].type.ptr \/ locals[val.local].type.arr)))
    THEN Thrown
    ELSE Returned(TRUE)

\* lines 85-90
checkSingleValue(val) ==
    IF isLiteralValue(val) /\ val.literal = 1 THEN Returned(TRUE) ELSE Thrown

(***************************************************************************)
(* The constructor (lines 92-104).                                         *)
(***************************************************************************)
\* lines 98-103: whether the constructor throws
ConstructorThrows_OnlyCopy(op, numEntries) ==
    numEntries # INT_ONE /\ op # "COPY"

ConstructorThrows(op, numEntries) ==
    numEntries # INT_ONE /\ op # "COPY" /\ op # "FILL"

MemoryInstruction(op, dest, src, numEntries) ==
    [op |-> op, dest |-> dest, src |-> src, num |-> numEntries]

getSource(m) == m.src
getDestination(m) == m.dest
getNumEntries(m) == m.num

(***************************************************************************)
(* canMoveIntoVPM (lines 163-215).                                         *)
(***************************************************************************)
\* lines 170-177: structs, arrays of structs and too wide elements
cannotLowerType_NoArrayOfStruct(base) ==
    \/ locals[base].type.elem = "struct"
    \/ locals[base].type.width > VPM_DEFAULT_SIZE

cannotLowerType(base) ==
    \/ locals[base].type.elem = "struct"
    \/ locals[base].type.elem = "arrayOfStruct"
    \/ locals[base].type.width > VPM_DEFAULT_SIZE

\* lines 185-186
canLowerGlobal_AnyAddressSpace(base) ==
    locals[base].isConstant \/ locals[base].type.ptr

canLowerGlobal(base) ==
    \/ locals[base].isConstant
    \/ (locals[base].type.ptr /\ locals[base].type.as = "LOCAL")

\* lines 187-193
canLowerParameter_LocalAddressSpace(base) ==
    locals[base].type.ptr /\ locals[base].type.as = "LOCAL"

canLowerParameter(base) == FALSE

\* line 197
canLowerStackAllocation_Inclusive(base) ==
    locals[base].type.width * NUM_QPUS <= VPM_DEFAULT_SIZE

canLowerStackAllocation(base) ==
    locals[base].type.width * NUM_QPUS < VPM_DEFAULT_SIZE

\* lines 211-214: the predicate every user has to satisfy
userAllowsLifting_MemoryInstruction(user) == user.kind = "memory"

userAllowsLifting(user) == FALSE

canMoveIntoVPM(val, isMemoryAddress) ==
    IF isMemoryAddress
    THEN Then(checkMemoryLocation(val),
              LET base == getBase(val.local) IN
              IF cannotLowerType(base) THEN Returned(FALSE)
              ELSE IF is(base, "Global") THEN Returned(canLowerGlobal(base))
              ELSE IF is(base, "Parameter") THEN Returned(canLowerParameter(base))
              ELSE IF is(base, "StackAllocation")
                   THEN Returned(canLowerStackAllocation(base))
              ELSE Returned(FALSE))
    ELSE IF ~checkLocal(val) THEN Returned(FALSE)
    ELSE Returned(\A user \in getUsers(val.local) : userAllowsLifting(user))

\* lines 217-222
canMoveSourceIntoVPM(m) ==
    Then(IF m.op \in {"READ", "WRITE"} THEN checkSingleValue(getNumEntries(m))
         ELSE Returned(TRUE),
         canMoveIntoVPM(getSource(m), m.op \in {"COPY", "READ"}))

\* lines 224-229
canMoveDestinationIntoVPM(m) ==
    Then(IF m.op \in {"READ", "WRITE"} THEN checkSingleValue(getNumEntries(m))
         ELSE Returned(TRUE),
         canMoveIntoVPM(getDestination(m), m.op # "READ"))

(***************************************************************************)
(* getMemoryAreas (lines 377-402).                                         *)
(***************************************************************************)
\* the operands the switch validates and reads, in the order of the code
MemoryOperands_BothSides(m) == <<getSource(m), getDestination(m)>>

MemoryOperands(m) ==
    IF m.op = "COPY" THEN <<getSource(m), getDestination(m)>>
    ELSE IF m.op = "READ" THEN <<getSource(m)>>
    ELSE <<getDestination(m)>>

RECURSIVE checkAll(_)
checkAll(vals) ==
    IF vals = <<>> THEN Returned(TRUE)
    ELSE Then(checkMemoryLocation(Head(vals)), checkAll(Tail(vals)))

getMemoryAreas(m) ==
    Then(checkAll(MemoryOperands(m)),
         ReturnedAreas({getBase(MemoryOperands(m)[i].local) :
                            i \in 1..Len(MemoryOperands(m))}))

(***************************************************************************)
(* The accesses* queries (lines 231-305): validate the operands the tag    *)
(* designates, then test the base of each; a COPY accesses what either of  *)
(* its operands accesses.                                                  *)
(***************************************************************************)
\* getBase(true) of the operands the switch validated
BasesOf(m) ==
    {getBase(MemoryOperands(m)[i].local) : i \in 1..Len(MemoryOperands(m))}

\* lines 231-256
isConstantGlobal(local) == is(local, "Global") /\ locals[local].isConstant

accessesConstantGlobal(m) ==
    Then(checkAll(MemoryOperands(m)),
         Returned(\E local \in BasesOf(m) : isConstantGlobal(local)))

\* lines 258-278
isStackAllocation(local) == is(local, "StackAllocation")

accessesStackAllocation(m) ==
    Then(checkAll(MemoryOperands(m)),
         Returned(\E local \in BasesOf(m) : isStackAllocation(local)))

\* lines 280-283
isGlobalWithLocalAddressSpace(local) ==
    is(local, "Global") /\ locals[local].type.as = "LOCAL"

\* lines 285-305
accessesLocalMemory(m) ==
    Then(checkAll(MemoryOperands(m)),
         Returned(\E local \in BasesOf(m) : isGlobalWithLocalAddressSpace(local)))

(***************************************************************************)
(* getSourceElementType and getDestinationElementType (lines 307-375).     *)
(***************************************************************************)
\* the pointed-to type, and with sizedType the array of the counted entries
\* (lines 315-324 and 352-361)
PointedToType(m, val, sizedType) ==
    IF ~sizedType THEN ReturnedType(ResultType("element", typeOf(val), 0))
    ELSE IF ~isLiteralValue(getNumEntries(m)) THEN Thrown
    ELSE ReturnedType(ResultType("array", typeOf(val), getNumEntries(m).literal))

\* lines 307-341
getSourceElementType(m, sizedType) ==
    IF m.op = "COPY"
    THEN Then(checkMemoryLocation(getSource(m)),
              PointedToType(m, getSource(m), sizedType))
    ELSE IF m.op = "FILL"
    THEN Then(checkLocalValue(getSource(m)),
              ReturnedType(ResultType("value", typeOf(getSource(m)), 0)))
    ELSE IF m.op = "READ"
    THEN Then(checkMemoryLocation(getSource(m)),
         Then(checkSingleValue(getNumEntries(m)),
              ReturnedType(ResultType("element", typeOf(getSource(m)), 0))))
    ELSE Then(checkLocalValue(getSource(m)),
         Then(checkSingleValue(getNumEntries(m)),
              ReturnedType(ResultType("value", typeOf(getSource(m)), 0))))

\* lines 343-375
getDestinationElementType(m, sizedType) ==
    IF m.op \in {"COPY", "FILL"}
    THEN Then(checkMemoryLocation(getDestination(m)),
              PointedToType(m, getDestination(m), sizedType))
    ELSE IF m.op = "READ"
    THEN Then(checkLocalValue(getDestination(m)),
         Then(checkSingleValue(getNumEntries(m)),
              ReturnedType(ResultType("value", typeOf(getDestination(m)), 0))))
    ELSE Then(checkMemoryLocation(getDestination(m)),
         Then(checkSingleValue(getNumEntries(m)),
              ReturnedType(ResultType("element", typeOf(getDestination(m)), 0))))

(***************************************************************************)
(* The record of the most recent call.                                     *)
(***************************************************************************)
Call(name, target, op, num, res) ==
    [call |-> name, target |-> target, op |-> op, num |-> num, sized |-> FALSE,
     outcome |-> res.outcome, bool |-> res.bool, areas |-> res.areas,
     type |-> res.type]

\* the record of a call of get*ElementType(sizedType)
SizedCall(name, target, op, num, sizedType, res) ==
    [Call(name, target, op, num, res) EXCEPT !.sized = sizedType]

NoCall == Call("none", 0, "none", INT_ONE, Returned(FALSE))

(***************************************************************************)
(* Inputs.  An arena holds a base local (1), an ordinary pointer local     *)
(* that refers to it (2), an ordinary pointer local without a reference    *)
(* (3) and an ordinary integer local (4).                                  *)
(***************************************************************************)
BASE == 1
ALIAS == 2
POINTER == 3
INTEGER == 4

Arena(base, aliasReference) ==
    << base,
       Local("Ordinary", FALSE, TYPE_POINTER, aliasReference),
       Local("Ordinary", FALSE, TYPE_POINTER, 0),
       Local("Ordinary", FALSE, TYPE_INT, 0) >>

PointerTypes(spaces) ==
    {DataType(TRUE, as, elem, width) :
        as \in spaces, elem \in ElementKinds, width \in ElementWidths}

\* the base locals of every kind, over the element types and address spaces
TypedBases ==
    {Local("Global", c, t, 0) : c \in BOOLEAN, t \in PointerTypes({"GLOBAL", "LOCAL"})}
    \cup {Local("Parameter", FALSE, t, 0) : t \in PointerTypes({"GLOBAL", "LOCAL"})}
    \cup {Local("StackAllocation", FALSE, t, 0) : t \in PointerTypes({"PRIVATE"})}
    \cup {Local("Ordinary", FALSE, t, 0) : t \in PointerTypes({"PRIVATE"})}

\* the base locals of every kind, of one pointer type
PlainBases ==
    {Local(k, FALSE, TYPE_POINTER, 0) :
        k \in {"Global", "Parameter", "StackAllocation", "Ordinary"}}

\* instructions writing the ordinary pointer locals
Moves(outs, sources) == {Instruction("move", "none", o, a, INT_ONE) : o \in outs, a \in sources}
Operations(outs, operands) ==
    {Instruction("op", op, o, a, b) :
        op \in {"add", "sub", "mul"}, o \in outs, a \in operands, b \in operands}
Others(outs) == {Instruction("other", "none", o, INT_ONE, INT_ONE) : o \in outs}

\* the writers of the typed specification: moves and unknown instructions
SimpleInstructions ==
    Moves({POINTER}, {LocalValue(BASE)}) \cup Others({POINTER})

\* the writers of the derivation specification
GraphInstructions ==
    Moves({ALIAS, POINTER}, {LocalValue(BASE), LocalValue(ALIAS), LocalValue(POINTER), INT_ONE})
    \cup Operations({POINTER}, {LocalValue(ALIAS), INT_ONE, POINTER_NULL})
    \cup Others({ALIAS, POINTER})

Counts == {INT_ONE, LiteralValue(2), LocalValue(INTEGER)}

(***************************************************************************)
(* Actions.                                                                *)
(***************************************************************************)
\* the IR gains an instruction of the given set
AddInstruction(choices) ==
    /\ Cardinality(instrs) < MaxInstrs
    /\ \E i \in choices \ instrs : instrs' = instrs \cup {i}
    /\ last' = NoCall
    /\ UNCHANGED <<locals, mems>>
    /\ UNCHANGED loopVars
    /\ UNCHANGED frontendVars

\* MemoryInstruction::MemoryInstruction (lines 92-104)
Construct(ops, dests, srcs, nums) ==
    /\ mems = <<>>
    /\ \E op \in ops, dest \in dests, src \in srcs, num \in nums :
          IF ConstructorThrows(op, num)
          THEN /\ last' = Call("MemoryInstruction", 0, op, num, Thrown)
               /\ UNCHANGED mems
          ELSE /\ mems' = Append(mems, MemoryInstruction(op, dest, src, num))
               /\ last' = Call("MemoryInstruction", Len(mems) + 1, op, num,
                               Returned(TRUE))
    /\ UNCHANGED <<locals, instrs>>
    /\ UNCHANGED loopVars
    /\ UNCHANGED frontendVars

\* MemoryInstruction::canMoveSourceIntoVPM (lines 217-222)
CanMoveSourceIntoVPM ==
    /\ \E i \in MemIds :
          last' = Call("canMoveSourceIntoVPM", i, mems[i].op, mems[i].num,
                       canMoveSourceIntoVPM(mems[i]))
    /\ UNCHANGED <<locals, instrs, mems>>
    /\ UNCHANGED loopVars
    /\ UNCHANGED frontendVars

\* MemoryInstruction::canMoveDestinationIntoVPM (lines 224-229)
CanMoveDestinationIntoVPM ==
    /\ \E i \in MemIds :
          last' = Call("canMoveDestinationIntoVPM", i, mems[i].op, mems[i].num,
                       canMoveDestinationIntoVPM(mems[i]))
    /\ UNCHANGED <<locals, instrs, mems>>
    /\ UNCHANGED loopVars
    /\ UNCHANGED frontendVars

\* MemoryInstruction::getMemoryAreas (lines 377-402)
GetMemoryAreas ==
    /\ \E i \in MemIds :
          last' = Call("getMemoryAreas", i, mems[i].op, mems[i].num,
                       getMemoryAreas(mems[i]))
    /\ UNCHANGED <<locals, instrs, mems>>
    /\ UNCHANGED loopVars
    /\ UNCHANGED frontendVars

\* MemoryInstruction::accessesConstantGlobal (lines 231-256)
AccessesConstantGlobal ==
    /\ \E i \in MemIds :
          last' = Call("accessesConstantGlobal", i, mems[i].op, mems[i].num,
                       accessesConstantGlobal(mems[i]))
    /\ UNCHANGED <<locals, instrs, mems>>
    /\ UNCHANGED loopVars
    /\ UNCHANGED frontendVars

\* MemoryInstruction::accessesStackAllocation (lines 258-278)
AccessesStackAllocation ==
    /\ \E i \in MemIds :
          last' = Call("accessesStackAllocation", i, mems[i].op, mems[i].num,
                       accessesStackAllocation(mems[i]))
    /\ UNCHANGED <<locals, instrs, mems>>
    /\ UNCHANGED loopVars
    /\ UNCHANGED frontendVars

\* MemoryInstruction::accessesLocalMemory (lines 285-305)
AccessesLocalMemory ==
    /\ \E i \in MemIds :
          last' = Call("accessesLocalMemory", i, mems[i].op, mems[i].num,
                       accessesLocalMemory(mems[i]))
    /\ UNCHANGED <<locals, instrs, mems>>
    /\ UNCHANGED loopVars
    /\ UNCHANGED frontendVars

\* MemoryInstruction::getSourceElementType (lines 307-341), a const method
GetSourceElementType_SetsCount ==
    /\ \E i \in MemIds, sizedType \in BOOLEAN :
          /\ last' = SizedCall("getSourceElementType", i, mems[i].op, mems[i].num,
                               sizedType, getSourceElementType(mems[i], sizedType))
          /\ mems' = [mems EXCEPT ![i].num = INT_ONE]
    /\ UNCHANGED <<locals, instrs>>
    /\ UNCHANGED loopVars
    /\ UNCHANGED frontendVars

GetSourceElementType ==
    /\ \E i \in MemIds, sizedType \in BOOLEAN :
          last' = SizedCall("getSourceElementType", i, mems[i].op, mems[i].num,
                            sizedType, getSourceElementType(mems[i], sizedType))
    /\ UNCHANGED <<locals, instrs, mems>>
    /\ UNCHANGED loopVars
    /\ UNCHANGED frontendVars

\* MemoryInstruction::getDestinationElementType (lines 343-375)
GetDestinationElementType ==
    /\ \E i \in MemIds, sizedType \in BOOLEAN :
          last' = SizedCall("getDestinationElementType", i, mems[i].op, mems[i].num,
                            sizedType, getDestinationElementType(mems[i], sizedType))
    /\ UNCHANGED <<locals, instrs, mems>>
    /\ UNCHANGED loopVars
    /\ UNCHANGED frontendVars

\* isDerivedFromMemory applied to a local (lines 18-60)
IsDerivedFromMemory ==
    /\ \E l \in {BASE, ALIAS, POINTER} :
          last' = Call("isDerivedFromMemory", l, "none", INT_ONE,
                       IF isDerivedFromMemory(l) = "overflow" THEN Overflow
                       ELSE Returned(isDerivedFromMemory(l) = "true"))
    /\ UNCHANGED <<locals, instrs, mems>>
    /\ UNCHANGED loopVars
    /\ UNCHANGED frontendVars

(***************************************************************************)
(* The loop analyses before they are given an input.                       *)
(***************************************************************************)
\* no back edge chosen yet
NoLoop == [backEdge |-> <<0, 0>>, nodes |-> {}, pending |-> {}]
\* no inclusion tree built yet
NoTree == [built |-> FALSE, edges |-> {}]
\* InductionVariable (ControlFlowLoop.h, lines 37-50): the local, the
\* instruction assigning its initial value, the operation stepping it, the
\* optional repeat condition (comparison and compared-to value) and whether
\* the condition is checked before the step
InductionVariable(local, initialAssignment, inductionStep, hasCondition, comparison, comparedTo, conditionCheckedBeforeStep) ==
    [local |-> local, initialAssignment |-> initialAssignment,
     inductionStep |-> inductionStep, hasCondition |-> hasCondition,
     comparison |-> comparison, comparedTo |-> comparedTo,
     conditionCheckedBeforeStep |-> conditionCheckedBeforeStep]

\* no induction variable found yet
NoInduction ==
    InductionVariable(0, Instruction("other", "none", 0, INT_ONE, INT_ONE),
                      Instruction("other", "none", 0, INT_ONE, INT_ONE),
                      FALSE, "none", INT_ONE, FALSE)
\* no query answered yet
NoAnswer == [query |-> "none", present |-> FALSE, value |-> 0]

NoLoopAnalysis ==
    /\ cfg = {}
    /\ loop = NoLoop
    /\ flat = <<>>
    /\ tree = NoTree
    /\ induction = NoInduction
    /\ answer = NoAnswer
    /\ body = <<>>
    /\ invariants = {}

(***************************************************************************)
(* The precompiler front end before it is used.                            *)
(***************************************************************************)
\* StdlibFiles (FrontendCompiler.h, lines 253-263): the path of each file,
\* here the folder it was found in, 0 for the empty path of a file not found
StdlibFiles(configurationHeader, precompiledHeader, llvmModule, spirvModule) ==
    [configurationHeader |-> configurationHeader,
     precompiledHeader |-> precompiledHeader,
     llvmModule |-> llvmModule, spirvModule |-> spirvModule]

NotFound == StdlibFiles(0, 0, 0, 0)

\* the table of locations before the first lookup
NoStdlib == [initialised |-> FALSE, files |-> NotFound]
\* no operation on a data handle yet
NoOperation ==
    [call |-> "none", outcome |-> "returned", argument |-> 0, object |-> 0,
     from |-> 0, bool |-> FALSE]

NoFrontend ==
    /\ installed = <<>>
    /\ stdlib = NoStdlib
    /\ lookups = <<>>
    /\ resultHandles = <<>>
    /\ sourceHandles = <<>>
    /\ made = NoOperation

(***************************************************************************)
(* Spec: memory instructions over every base type, origin kind and         *)
(* operand, with moves and unknown instructions as further writers.        *)
(***************************************************************************)
Init ==
    /\ locals \in {Arena(b, r) : b \in TypedBases, r \in {BASE}}
    /\ instrs = {}
    /\ mems = <<>>
    /\ last = NoCall
    /\ NoLoopAnalysis
    /\ NoFrontend

Operands == {LocalValue(l) : l \in {BASE, ALIAS, POINTER, INTEGER}}

Next ==
    \/ AddInstruction(SimpleInstructions)
    \/ Construct(MemoryOperations, Operands, Operands \cup {INT_ONE}, Counts)
    \/ CanMoveSourceIntoVPM
    \/ CanMoveDestinationIntoVPM
    \/ GetMemoryAreas

Spec == Init /\ [][Next]_vars

(***************************************************************************)
(* SpecDerive: the def/use graphs over the ordinary pointer locals, with   *)
(* every producer shape, and isDerivedFromMemory applied to each local.    *)
(***************************************************************************)
InitDerive ==
    /\ locals \in {Arena(b, r) : b \in PlainBases, r \in {BASE}}
    /\ instrs = {}
    /\ mems = <<>>
    /\ last = NoCall
    /\ NoLoopAnalysis
    /\ NoFrontend

NextDerive ==
    \/ AddInstruction(GraphInstructions)
    \/ Construct({"READ", "WRITE"}, {LocalValue(POINTER)}, {LocalValue(BASE)},
                 {INT_ONE})
    \/ IsDerivedFromMemory

SpecDerive == InitDerive /\ [][NextDerive]_vars

(***************************************************************************)
(* SpecAccess: every query of a memory instruction, over the origin kinds  *)
(* and the operand shapes of the local-value side (a memory-resident       *)
(* local, a Parameter of pointer, array or integer type, an ordinary local *)
(* with or without a memory base, a literal).                              *)
(***************************************************************************)
AccessBases ==
    {Local("Global", c, DataType(TRUE, as, "scalar", 1), 0) :
        c \in BOOLEAN, as \in {"GLOBAL", "LOCAL"}}
    \cup {Local("Parameter", FALSE, t, 0) : t \in {TYPE_POINTER, TYPE_ARRAY, TYPE_INT}}
    \cup {Local("StackAllocation", FALSE, DataType(TRUE, "PRIVATE", "scalar", 1), 0)}
    \cup {Local("Ordinary", FALSE, DataType(TRUE, "PRIVATE", "scalar", 1), 0)}

InitAccess ==
    /\ locals \in {Arena(b, IF b.type.ptr THEN BASE ELSE 0) : b \in AccessBases}
    /\ instrs = {}
    /\ mems = <<>>
    /\ last = NoCall
    /\ NoLoopAnalysis
    /\ NoFrontend

NextAccess ==
    \/ AddInstruction(SimpleInstructions)
    \/ Construct(MemoryOperations, Operands, Operands \cup {INT_ONE}, Counts)
    \/ CanMoveSourceIntoVPM
    \/ CanMoveDestinationIntoVPM
    \/ AccessesConstantGlobal
    \/ AccessesStackAllocation
    \/ AccessesLocalMemory
    \/ GetSourceElementType
    \/ GetDestinationElementType
    \/ GetMemoryAreas

SpecAccess == InitAccess /\ [][NextAccess]_vars

TypeOK ==
    /\ Len(locals) = 4
    /\ Cardinality(instrs) <= MaxInstrs
    /\ Len(mems) <= 1
    /\ last.outcome \in {"returned", "error", "overflow"}

(***************************************************************************)
(* Properties.  Each is stated over the record of the most recent call     *)
(* and the IR it was made on (every change of the IR replaces the record). *)
(***************************************************************************)
MemoryOrigins == {"Parameter", "Global", "StackAllocation"}

\* the memory instruction the most recent call was made on
Target == mems[last.target]

\* the most recent call classified an address operand; AddressOperand is it
OnAddress ==
    \/ last.call = "canMoveSourceIntoVPM" /\ last.op \in {"COPY", "READ"}
    \/ last.call = "canMoveDestinationIntoVPM" /\ last.op # "READ"

AddressOperand ==
    IF last.call = "canMoveSourceIntoVPM" THEN Target.src ELSE Target.dest

\* the most recent call classified a local value; ValueOperand is it
OnValue ==
    \/ last.call = "canMoveSourceIntoVPM" /\ last.op \in {"FILL", "WRITE"}
    \/ last.call = "canMoveDestinationIntoVPM" /\ last.op = "READ"

ValueOperand ==
    IF last.call = "canMoveSourceIntoVPM" THEN Target.src ELSE Target.dest

\* the origin of the address operand, when that is a local
Origin == locals[getBase(AddressOperand.local)]

\* the element type can be staged at all
Stageable(l) ==
    /\ l.type.elem \notin {"struct", "arrayOfStruct"}
    /\ l.type.width <= VPM_DEFAULT_SIZE

\* C1: the constructor raises an error exactly for READ and WRITE with a
\* count other than the literal 1 (another literal, or no literal); COPY and
\* FILL are constructed with every count, and every constructed READ and
\* WRITE counts the literal 1.
C1_ConstructorCount ==
    /\ last.call = "MemoryInstruction" =>
          /\ last.outcome \in {"returned", "error"}
          /\ last.outcome = "error" <=>
                /\ last.op \in {"READ", "WRITE"}
                /\ ~(isLiteralValue(last.num) /\ last.num.literal = 1)
          /\ last.outcome = "returned" =>
                /\ last.target = Len(mems)
                /\ Target.op = last.op
                /\ Target.num = last.num
    /\ \A i \in MemIds :
          mems[i].op \in {"READ", "WRITE"} =>
              isLiteralValue(mems[i].num) /\ mems[i].num.literal = 1

C1_Witness ==
    /\ last.call = "MemoryInstruction"
    /\ last.op = "WRITE"
    /\ last.num = LiteralValue(2)
    /\ last.outcome = "error"
    /\ mems = <<>>

\* C2 (as claimed): whenever getMemoryAreas returns, every local of the
\* returned set is a Parameter, a Global or a StackAllocation, because
\* validation accepts only operands whose origin is one of these.
C2_AreasAreMemoryOrigins ==
    (last.call = "getMemoryAreas" /\ last.outcome = "returned") =>
        \A l \in last.areas : locals[l].kind \in MemoryOrigins

\* C6: an address operand whose origin is a Global of a stageable element
\* type is eligible exactly if the global is constant or its pointer type
\* is in the local address space.
C6_GlobalEligibility ==
    (OnAddress /\ checkLocal(AddressOperand) /\ getPointerType(AddressOperand)
        /\ Origin.kind = "Global" /\ Stageable(Origin)) =>
        /\ last.outcome = "returned"
        /\ last.bool <=>
              (Origin.isConstant \/ (Origin.type.ptr /\ Origin.type.as = "LOCAL"))

C6_Witness ==
    /\ OnAddress /\ checkLocal(AddressOperand)
    /\ AddressOperand.local = ALIAS
    /\ Origin.kind = "Global" /\ Stageable(Origin)
    /\ ~Origin.isConstant /\ Origin.type.as = "LOCAL"
    /\ last.outcome = "returned" /\ last.bool

\* C7: an address operand whose origin is a StackAllocation of a non-struct
\* element type is eligible exactly if width * NUM_QPUS is strictly below
\* the capacity.
C7_StackEligibility ==
    (OnAddress /\ checkLocal(AddressOperand) /\ getPointerType(AddressOperand)
        /\ Origin.kind = "StackAllocation"
        /\ Origin.type.elem \notin {"struct", "arrayOfStruct"}) =>
        /\ last.outcome = "returned"
        /\ last.bool <=> (Origin.type.width * NUM_QPUS < VPM_DEFAULT_SIZE)

C7_Witness ==
    /\ OnAddress /\ checkLocal(AddressOperand)
    /\ Origin.kind = "StackAllocation" /\ Origin.type.elem = "scalar"
    /\ Origin.type.width * NUM_QPUS = VPM_DEFAULT_SIZE
    /\ last.outcome = "returned" /\ ~last.bool

\* C8: an address operand that passes validation is ineligible whenever its
\* origin's element type is a struct or an array of structs, or wider than
\* the capacity, whatever the origin kind.
C8_LayoutAndWidthFirst ==
    (OnAddress /\ last.outcome = "returned" /\ ~Stageable(Origin)) => ~last.bool

C8_Witness ==
    /\ OnAddress /\ last.outcome = "returned" /\ ~last.bool
    /\ Origin.kind = "Global" /\ Origin.isConstant
    /\ Origin.type.elem = "arrayOfStruct" /\ Origin.type.width = 1

OnDerivedLocal ==
    /\ last.call = "isDerivedFromMemory"
    /\ locals[getBase(last.target)].kind \notin MemoryOrigins

\* the single producer of that local is an add or subtract
SingleAddOrSub(user) ==
    /\ Writers(last.target) = {user}
    /\ user.kind = "op"
    /\ user.op \in {"add", "sub"}

PointerLocal(val) == checkLocal(val) /\ getPointerType(val)

\* the one pointer-typed operand of an operation that has exactly one, a local
OnePointerOperand(user, val) ==
    \/ val = user.a /\ PointerLocal(user.a) /\ ~getPointerType(user.b)
    \/ val = user.b /\ PointerLocal(user.b) /\ ~getPointerType(user.a)

\* C3: isDerivedFromMemory returns true for every local based on a
\* Parameter, a Global or a StackAllocation, whatever writes it; for any
\* other local it returns true when the single producer adds or subtracts a
\* pointer-typed local and a non-pointer offset, and false when the single
\* producer adds or subtracts two pointer-typed locals.
C3_DerivedFromMemoryCases ==
    last.call = "isDerivedFromMemory" =>
        /\ locals[getBase(last.target)].kind \in MemoryOrigins =>
              (last.outcome = "returned" /\ last.bool)
        /\ \A user \in Writers(last.target) :
              (OnDerivedLocal /\ SingleAddOrSub(user)) =>
                  /\ (\E val \in {user.a, user.b} : OnePointerOperand(user, val)) =>
                        (last.outcome = "returned" /\ last.bool)
                  /\ (PointerLocal(user.a) /\ PointerLocal(user.b)) =>
                        (last.outcome = "returned" /\ ~last.bool)

C3_Witness ==
    /\ OnDerivedLocal
    /\ last.target = POINTER
    /\ Writers(POINTER) = {Instruction("op", "sub", POINTER, INT_ONE, LocalValue(ALIAS))}
    /\ last.outcome = "returned" /\ last.bool

\* C4 (as claimed): for a local not based on memory whose only producer is
\* an add or subtract with exactly one pointer-typed operand, the result is
\* that of isDerivedFromMemory on the pointer-typed operand's local.
C4_RecursesIntoPointerOperand ==
    \A user \in Writers(last.target) : \A val \in {user.a, user.b} :
        (OnDerivedLocal /\ SingleAddOrSub(user) /\ OnePointerOperand(user, val)
            /\ isDerivedFromMemory(val.local) # "overflow") =>
            /\ last.outcome = "returned"
            /\ last.bool <=> (isDerivedFromMemory(val.local) = "true")

\* C5 (as claimed): for a local not based on memory that a MemoryInstruction
\* produces, the destination of a READ, isDerivedFromMemory returns false.
C5_ReadDestinationNotDerived ==
    (OnDerivedLocal /\ \E user \in Writers(last.target) :
                           user.kind = "memory" /\ user.op = "READ") =>
        (last.outcome = "returned" /\ ~last.bool)

\* the most recent call was one of the derived queries
OnDerivedQuery ==
    last.call \in {"accessesConstantGlobal", "accessesStackAllocation",
                   "accessesLocalMemory", "getMemoryAreas"}

\* the operands the tag of a memory instruction designates as memory locations
Designated(m) ==
    IF m.op = "COPY" THEN {m.src, m.dest}
    ELSE IF m.op = "READ" THEN {m.src}
    ELSE {m.dest}

\* the operand passes the memory-location validation
ValidLocation(val) ==
    /\ checkLocal(val)
    /\ getPointerType(val)
    /\ isDerivedFromMemory(val.local) = "true"

\* the origins of the designated operands
DesignatedBases(m) == {getBase(val.local) : val \in Designated(m)}

\* C11: each of accessesConstantGlobal, accessesStackAllocation,
\* accessesLocalMemory and getMemoryAreas raises an error exactly when an
\* operand its tag designates as memory location (COPY: source and
\* destination; FILL, WRITE: destination; READ: source) fails the validation
\* in the IR of the call, and otherwise returns a result built from the
\* origins of the designated operands alone, whatever the other operand is.
C11_DerivedQueriesValidate ==
    OnDerivedQuery =>
        /\ last.outcome \in {"returned", "error"}
        /\ last.outcome = "error" <=>
              \E val \in Designated(Target) : ~ValidLocation(val)
        /\ (last.outcome = "returned" /\ last.call = "getMemoryAreas") =>
              last.areas = DesignatedBases(Target)
        /\ (last.outcome = "returned" /\ last.call = "accessesConstantGlobal") =>
              (last.bool <=> \E l \in DesignatedBases(Target) :
                                locals[l].kind = "Global" /\ locals[l].isConstant)
        /\ (last.outcome = "returned" /\ last.call = "accessesStackAllocation") =>
              (last.bool <=> \E l \in DesignatedBases(Target) :
                                locals[l].kind = "StackAllocation")
        /\ (last.outcome = "returned" /\ last.call = "accessesLocalMemory") =>
              (last.bool <=> \E l \in DesignatedBases(Target) :
                                locals[l].kind = "Global" /\ locals[l].type.as = "LOCAL")

\* a WRITE of a literal to a stack allocation reached through an alias, after
\* the IR changed: the literal side is neither validated nor read
C11_Witness ==
    /\ last.call = "accessesStackAllocation"
    /\ Target.op = "WRITE"
    /\ Target.src = INT_ONE
    /\ Target.dest = LocalValue(ALIAS)
    /\ instrs # {}
    /\ last.outcome = "returned" /\ last.bool

\* the most recent call asked for the type of the local-value side (the
\* source of FILL and WRITE, the destination of READ); LocalValueOperand is it
OnLocalValueType ==
    \/ last.call = "getSourceElementType" /\ last.op \in {"FILL", "WRITE"}
    \/ last.call = "getDestinationElementType" /\ last.op = "READ"

LocalValueOperand ==
    IF last.call = "getSourceElementType" THEN Target.src ELSE Target.dest

\* a local that is a Global or StackAllocation, or a Parameter of pointer or
\* array type
MemoryLocal(l) ==
    \/ locals[l].kind \in {"Global", "StackAllocation"}
    \/ (locals[l].kind = "Parameter" /\ (locals[l].type.ptr \/ locals[l].type.arr))

\* C12 (as claimed): the local-value side is rejected with an error whenever
\* the operand resolves, also through a derived or aliased local, to a
\* Global, a StackAllocation or a Parameter of pointer or array type, and a
\* literal or an ordinary local not resolving to one of these is accepted.
C12_RejectsResolvedMemoryLocal ==
    OnLocalValueType =>
        IF checkLocal(LocalValueOperand)
              /\ MemoryLocal(getBase(LocalValueOperand.local))
        THEN last.outcome = "error"
        ELSE last.outcome = "returned"

\* C12 (amended): the local-value side is rejected with an error exactly
\* when the operand is a local that itself is a Global, a StackAllocation or
\* a Parameter of pointer or array type; a literal, a Parameter of scalar
\* type and every ordinary local are accepted, an ordinary local that
\* refers to a memory-resident local included, and the type returned is the
\* operand's own type.
C12_RejectsMemoryLocalItself ==
    OnLocalValueType =>
        /\ last.outcome \in {"returned", "error"}
        /\ last.outcome = "error" <=>
              (checkLocal(LocalValueOperand) /\ MemoryLocal(LocalValueOperand.local))
        /\ last.outcome = "returned" =>
              last.type = ResultType("value", typeOf(LocalValueOperand), 0)

\* a WRITE whose source is an ordinary local referring to a Global
C12_Witness ==
    /\ last.call = "getSourceElementType"
    /\ Target.op = "WRITE"
    /\ Target.src = LocalValue(ALIAS)
    /\ locals[getBase(ALIAS)].kind = "Global"
    /\ last.outcome = "returned"

\* a producer that is no move from a local, no add or subtract with exactly
\* one pointer-typed operand and no memory instruction
Unrecognised(user) ==
    \/ user.kind = "other"
    \/ user.kind = "move" /\ ~checkLocal(user.a)
    \/ user.kind = "op" /\ user.op \notin {"add", "sub"}
    \/ user.kind = "op" /\ getPointerType(user.a) /\ getPointerType(user.b)
    \/ user.kind = "op" /\ ~getPointerType(user.a) /\ ~getPointerType(user.b)

\* C13 (as claimed): isDerivedFromMemory never raises an error, and for a
\* local not based on a Parameter, a Global or a StackAllocation that has a
\* producer of an unrecognised shape (an operation other than add and
\* subtract, an add or subtract of two pointers or of two non-pointers, a
\* move of a non-local, an unknown instruction) it returns false.
C13_UnrecognisedProducerIsFalse ==
    last.call = "isDerivedFromMemory" =>
        /\ last.outcome # "error"
        /\ (OnDerivedLocal /\ \E user \in Writers(last.target) : Unrecognised(user)) =>
              (last.outcome = "returned" /\ ~last.bool)

\* what holds of C13: no error, and false whenever the call returns
C13_FalseWhenReturning ==
    last.call = "isDerivedFromMemory" =>
        /\ last.outcome # "error"
        /\ (OnDerivedLocal /\ last.outcome = "returned"
               /\ \E user \in Writers(last.target) : Unrecognised(user)) => ~last.bool

\* the classification queries of a memory instruction
Queries ==
    {"canMoveSourceIntoVPM", "canMoveDestinationIntoVPM", "accessesConstantGlobal",
     "accessesStackAllocation", "accessesLocalMemory", "getSourceElementType",
     "getDestinationElementType", "getMemoryAreas"}

\* the outcome of the most recent query when it is made again now
Repeated ==
    CASE last.call = "canMoveSourceIntoVPM" -> canMoveSourceIntoVPM(Target)
      [] last.call = "canMoveDestinationIntoVPM" -> canMoveDestinationIntoVPM(Target)
      [] last.call = "accessesConstantGlobal" -> accessesConstantGlobal(Target)
      [] last.call = "accessesStackAllocation" -> accessesStackAllocation(Target)
      [] last.call = "accessesLocalMemory" -> accessesLocalMemory(Target)
      [] last.call = "getSourceElementType" -> getSourceElementType(Target, last.sized)
      [] last.call = "getDestinationElementType" ->
             getDestinationElementType(Target, last.sized)
      [] last.call = "getMemoryAreas" -> getMemoryAreas(Target)

\* C20: a step that is a classification query, whether it returns or raises,
\* leaves the tag, destination, source and count of every memory instruction
\* and the kind, the writers and the readers of every local as they were,
\* and making the same query again on the IR it leaves gives the outcome
\* just recorded.
C20_QueriesAreReadOnly ==
    [][last'.call \in Queries =>
          /\ Len(mems') = Len(mems)
          /\ \A i \in MemIds :
                /\ mems'[i].op = mems[i].op
                /\ mems'[i].dest = mems[i].dest
                /\ mems'[i].src = mems[i].src
                /\ mems'[i].num = mems[i].num
          /\ Len(locals') = Len(locals)
          /\ \A l \in LocalIds :
                /\ locals'[l].kind = locals[l].kind
                /\ Writers(l)' = Writers(l)
                /\ Readers(l)' = Readers(l)
          /\ Repeated' = [outcome |-> last'.outcome, bool |-> last'.bool,
                           areas |-> last'.areas, type |-> last'.type]]_vars

\* a sized COPY with a count held in a local: the query raised, and the
\* instruction and its writers are as constructed
C20_Witness ==
    /\ last.call = "getDestinationElementType" /\ last.sized
    /\ last.outcome = "error"
    /\ Target = MemoryInstruction("COPY", LocalValue(ALIAS), LocalValue(BASE),
                                  LocalValue(INTEGER))
    /\ Writers(ALIAS) = {AsUser(Target)}
    /\ instrs # {}

(***************************************************************************)
(* The natural loop detector (ControlFlowLoop.h, lines 85-98 and 137-150). *)
(* A control-flow graph is a set of edges <<from, to>> between basic       *)
(* blocks; block ENTRY starts the function and is no jump target, and      *)
(* every block is reachable from it.                                       *)
(***************************************************************************)
\* the memory-operand classification takes no part in the loop analyses
NoMemoryIR ==
    /\ locals = <<>>
    /\ instrs = {}
    /\ mems = <<>>
    /\ last = NoCall

\* edges of a control-flow graph
MaxEdges == 6

CFGNodes == 1..4
ENTRY == 1

CFGEdges == {<<a, b>> : a \in CFGNodes, b \in CFGNodes \ {ENTRY}}

NodesOf(g) == {ENTRY} \cup {e[1] : e \in g} \cup {e[2] : e \in g}
Successors(g, x) == {e[2] : e \in {d \in g : d[1] = x}}
Predecessors(g, x) == {e[1] : e \in {d \in g : d[2] = x}}

\* the blocks reached from the given ones on paths that do not contain avoid
RECURSIVE ReachableFrom(_, _, _)
ReachableFrom(g, from, avoid) ==
    LET next == {y \in UNION {Successors(g, x) : x \in from} :
                     y # avoid /\ y \notin from}
    IN  IF next = {} THEN from ELSE ReachableFrom(g, from \cup next, avoid)

\* the dominance relation: every path from the entry to x contains n
Dominates(g, n, x) ==
    x = n \/ x \notin ReachableFrom(g, {ENTRY} \ {n}, n)

ControlFlowGraphs ==
    {g \in SUBSET CFGEdges :
        /\ Cardinality(g) <= MaxEdges
        /\ NodesOf(g) \subseteq ReachableFrom(g, {ENTRY}, 0)}

\* the edges (m -> n) where n dominates m
BackEdges(g) == {e \in g : Dominates(g, e[2], e[1])}

\* the blocks the backward search starts from: the source of the back
\* edge; the search stops at the target
Seed_WithHeader(backEdge) == {backEdge[1], backEdge[2]}

Seed(backEdge) == {backEdge[1]} \ {backEdge[2]}

\* ControlFlowLoop(backEdge), lines 96-98, with the header and the source
FindLoop ==
    /\ loop = NoLoop
    /\ \E backEdge \in BackEdges(cfg) :
          loop' = [backEdge |-> backEdge,
                   nodes |-> {backEdge[2]} \cup Seed(backEdge),
                   pending |-> Seed(backEdge)]
    /\ UNCHANGED <<cfg, flat, tree, induction, answer, body, invariants>>
    /\ UNCHANGED memoryVars
    /\ UNCHANGED frontendVars

\* one step of the backward search: the predecessors of a pending block
\* that the header dominates join the loop
Explore ==
    /\ \E x \in loop.pending :
          LET found == {p \in Predecessors(cfg, x) :
                           /\ p \notin loop.nodes
                           /\ Dominates(cfg, loop.backEdge[2], p)}
          IN  loop' = [loop EXCEPT !.nodes = @ \cup found,
                                   !.pending = (@ \ {x}) \cup found]
    /\ UNCHANGED <<cfg, flat, tree, induction, answer, body, invariants>>
    /\ UNCHANGED memoryVars
    /\ UNCHANGED frontendVars

\* the search is over
Detected == loop # NoLoop /\ loop.pending = {}

\* ControlFlowLoop::getHeader (lines 137-143): the only block of the loop
\* with a predecessor outside the loop, 0 when there is no such block
getHeader(g, l) ==
    LET entered == {x \in l.nodes : \E p \in Predecessors(g, x) : p \notin l.nodes}
    IN  IF Cardinality(entered) = 1 THEN CHOOSE x \in entered : TRUE ELSE 0

\* ControlFlowLoop::getTail (lines 145-150): the block the back jump leaves
getTail_Target(l) == l.backEdge[2]

getTail(l) == l.backEdge[1]

InitLoop ==
    /\ cfg \in ControlFlowGraphs
    /\ loop = NoLoop
    /\ flat = <<>>
    /\ tree = NoTree
    /\ induction = NoInduction
    /\ answer = NoAnswer
    /\ body = <<>>
    /\ invariants = {}
    /\ NoMemoryIR
    /\ NoFrontend

NextLoop ==
    \/ FindLoop
    \/ Explore

SpecLoop == InitLoop /\ [][NextLoop]_vars

PathNotContaining(g, x, m, n) ==
    x # n /\ m \in ReachableFrom(g, {x}, n)

\* C15: the detected loop of a back edge m -> n is exactly the set of the
\* blocks x that n dominates and that have a path to m not containing n,
\* plus the header n.
C15_NaturalLoop ==
    Detected =>
        loop.nodes =
            {x \in NodesOf(cfg) :
                /\ Dominates(cfg, loop.backEdge[2], x)
                /\ PathNotContaining(cfg, x, loop.backEdge[1], loop.backEdge[2])}
            \cup {loop.backEdge[2]}

\* a loop that leaves out a block its header dominates
C15_Witness ==
    /\ Detected
    /\ Cardinality(loop.nodes) = 2
    /\ \E x \in NodesOf(cfg) \ loop.nodes :
          /\ Dominates(cfg, loop.backEdge[2], x)
          /\ x \in Predecessors(cfg, loop.backEdge[2])

(***************************************************************************)
(* The loop inclusion tree (ControlFlowLoop.h, lines 123-126 and 209-235). *)
(* A loop is the set of its blocks; the tree is the set of its edges       *)
(* <<A, B>>, A being the parent of B.                                      *)
(***************************************************************************)
\* loops of the flat list
MaxLoops == 4

LoopBlocks == 1..3

\* the lists of up to MaxLoops different loops
RECURSIVE LoopLists(_)
LoopLists(n) ==
    IF n = 0 THEN {<<>>}
    ELSE LoopLists(n - 1) \cup
         {Append(l, x) : l \in {k \in LoopLists(n - 1) : Len(k) = n - 1},
                         x \in SUBSET LoopBlocks \ {{}}}

Range(list) == {list[i] : i \in 1..Len(list)}

DistinctLoopLists == {l \in LoopLists(MaxLoops) : Cardinality(Range(l)) = Len(l)}

\* the orders of a list
Reorderings(list) ==
    {[i \in 1..Len(list) |-> list[f[i]]] : f \in Permutations(1..Len(list))}

\* ControlFlowLoop::includes (lines 123-126)
includes(a, b) == b \subseteq a /\ a # b

\* loops[i] is the innermost loop that includes loops[j]
Innermost_AnyIncluding(loops, i, j) == includes(loops[i], loops[j])

Innermost_AmongEarlier(loops, i, j) ==
    /\ includes(loops[i], loops[j])
    /\ ~\E k \in 1..(j - 1) :
          includes(loops[i], loops[k]) /\ includes(loops[k], loops[j])

Innermost(loops, i, j) ==
    /\ includes(loops[i], loops[j])
    /\ ~\E k \in 1..Len(loops) :
          includes(loops[i], loops[k]) /\ includes(loops[k], loops[j])

\* the ordered pairs of the list, visited in the order of the list
RECURSIVE AddPairs(_, _, _)
AddPairs(loops, k, edges) ==
    IF k > Len(loops) * Len(loops) THEN edges
    ELSE LET i == ((k - 1) \div Len(loops)) + 1
             j == ((k - 1) % Len(loops)) + 1
         IN  AddPairs(loops, k + 1,
                      IF Innermost(loops, i, j)
                      THEN edges \cup {<<loops[i], loops[j]>>}
                      ELSE edges)

\* createLoopInclusingTree (lines 209-235)
createLoopInclusingTree(loops) ==
    [built |-> TRUE, edges |-> AddPairs(loops, 1, {})]

\* the loops without a parent
Roots(t, loops) == {b \in Range(loops) : ~\E e \in t.edges : e[2] = b}
Children(t, a) == {e[2] : e \in {d \in t.edges : d[1] = a}}

\* the tree is built from the flat list, for the first time or again
CreateLoopInclusingTree ==
    /\ tree' = createLoopInclusingTree(flat)
    /\ UNCHANGED <<cfg, loop, flat, induction, answer, body, invariants>>
    /\ UNCHANGED memoryVars
    /\ UNCHANGED frontendVars

\* the same loops are listed in another order; the tree built stays
Reorder ==
    /\ flat' \in Reorderings(flat) \ {flat}
    /\ UNCHANGED <<cfg, loop, tree, induction, answer, body, invariants>>
    /\ UNCHANGED memoryVars
    /\ UNCHANGED frontendVars

InitTree ==
    /\ flat \in DistinctLoopLists
    /\ tree = NoTree
    /\ cfg = {}
    /\ loop = NoLoop
    /\ induction = NoInduction
    /\ answer = NoAnswer
    /\ body = <<>>
    /\ invariants = {}
    /\ NoMemoryIR
    /\ NoFrontend

NextTree ==
    \/ CreateLoopInclusingTree
    \/ Reorder

SpecTree == InitTree /\ [][NextTree]_vars

\* the loops of the example of createLoopInclusingTree
LoopA == {1, 2, 3}
LoopB == {1, 2}
LoopC == {1}
LoopD == {3}

\* C16: in the tree built, A is the parent of B exactly if A includes B and
\* no loop of the list lies strictly between them; the loops no other loop
\* includes are the roots; and for A containing B containing C, with D
\* directly inside A, A is the root with the children B and D, B has the
\* child C, and there is no edge from A to C.
C16_ParentIsInnermost ==
    tree.built =>
        /\ \A a, b \in Range(flat) :
              <<a, b>> \in tree.edges <=>
                  /\ b \subseteq a /\ b # a
                  /\ ~\E c \in Range(flat) :
                        c \subseteq a /\ c # a /\ b \subseteq c /\ b # c
        /\ tree.edges \subseteq Range(flat) \X Range(flat)
        /\ Roots(tree, flat) =
              {b \in Range(flat) : ~\E a \in Range(flat) : b \subseteq a /\ b # a}
        /\ Range(flat) = {LoopA, LoopB, LoopC, LoopD} =>
              /\ Roots(tree, flat) = {LoopA}
              /\ Children(tree, LoopA) = {LoopB, LoopD}
              /\ Children(tree, LoopB) = {LoopC}
              /\ Children(tree, LoopC) = {} /\ Children(tree, LoopD) = {}

C16_Witness ==
    /\ tree.built
    /\ flat = <<LoopC, LoopD, LoopB, LoopA>>
    /\ tree.edges = {<<LoopA, LoopB>>, <<LoopA, LoopD>>, <<LoopB, LoopC>>}

MaxCount == 4

\* the local that is the iteration variable, and a local computed elsewhere
ITERATION == 1
DYNAMIC == 2

\* the initial assignments: a literal or the value of a local
InitialAssignments ==
    {Instruction("move", "none", ITERATION, a, INT_ONE) :
        a \in {LiteralValue(0), LiteralValue(1), LocalValue(DYNAMIC)}}

\* the steps: the iteration variable plus or minus a literal or a local
InductionSteps ==
    {Instruction("op", op, ITERATION, LocalValue(ITERATION), b) :
        op \in {"add", "sub"},
        b \in {LiteralValue(1), LiteralValue(2), LocalValue(DYNAMIC)}}

ComparedTo == {LiteralValue(n) : n \in 0..MaxCount} \cup {LocalValue(DYNAMIC)}

InductionVariables ==
    {InductionVariable(ITERATION, i, s, TRUE, c, v, b) :
        i \in InitialAssignments, s \in InductionSteps, c \in {"<", "<="},
        v \in ComparedTo, b \in BOOLEAN}
    \cup {InductionVariable(ITERATION, i, s, FALSE, "none", INT_ONE, FALSE) :
            i \in InitialAssignments, s \in InductionSteps}

\* an Optional: absent, or present with a value
Absent(query) == [query |-> query, present |-> FALSE, value |-> 0]
Present(query, value) == [query |-> query, present |-> TRUE, value |-> value]

Abs(n) == IF n < 0 THEN 0 - n ELSE n

\* InductionVariable::getLowerBound (lines 54-59): the literal assigned
getLowerBound(iv) ==
    IF isLiteralValue(iv.initialAssignment.a)
    THEN Present("getLowerBound", iv.initialAssignment.a.literal)
    ELSE Absent("getLowerBound")

\* InductionVariable::getUpperBound (lines 61-67): the literal compared to
getUpperBound(iv) ==
    IF iv.hasCondition /\ isLiteralValue(iv.comparedTo)
    THEN Present("getUpperBound", iv.comparedTo.literal)
    ELSE Absent("getUpperBound")

\* InductionVariable::getStep (lines 69-72): the literal added, signed
getStep(iv) ==
    IF isLiteralValue(iv.inductionStep.b)
    THEN Present("getStep", IF iv.inductionStep.op = "sub"
                            THEN 0 - iv.inductionStep.b.literal
                            ELSE iv.inductionStep.b.literal)
    ELSE Absent("getStep")

\* InductionVariable::getRange (lines 74-77): |upper - lower|
getRange(iv) ==
    IF getLowerBound(iv).present /\ getUpperBound(iv).present
    THEN Present("getRange", Abs(getUpperBound(iv).value - getLowerBound(iv).value))
    ELSE Absent("getRange")

\* the adjustments of the count: none for a strict less-than checked before
\* the step; for the other comparisons and orders one of -1, 0, +1
Adjustments_Inclusive(comparison, conditionCheckedBeforeStep) == {1}

Adjustments(comparison, conditionCheckedBeforeStep) ==
    IF comparison = "<" /\ conditionCheckedBeforeStep THEN {0} ELSE {0 - 1, 0, 1}

\* InductionVariable::getIterationCount (lines 79-82): range / |step|,
\* adjusted; the count is unsigned
IterationCounts(iv) ==
    IF getRange(iv).present /\ getStep(iv).present
    THEN {Present("getIterationCount",
                  (getRange(iv).value \div Abs(getStep(iv).value)) + adjustment) :
             adjustment \in
                 {a \in Adjustments(iv.comparison, iv.conditionCheckedBeforeStep) :
                     (getRange(iv).value \div Abs(getStep(iv).value)) + a >= 0}}
    ELSE {Absent("getIterationCount")}

GetLowerBound ==
    /\ answer' = getLowerBound(induction)
    /\ UNCHANGED <<cfg, loop, flat, tree, induction, body, invariants>>
    /\ UNCHANGED memoryVars
    /\ UNCHANGED frontendVars

GetUpperBound ==
    /\ answer' = getUpperBound(induction)
    /\ UNCHANGED <<cfg, loop, flat, tree, induction, body, invariants>>
    /\ UNCHANGED memoryVars
    /\ UNCHANGED frontendVars

GetStep ==
    /\ answer' = getStep(induction)
    /\ UNCHANGED <<cfg, loop, flat, tree, induction, body, invariants>>
    /\ UNCHANGED memoryVars
    /\ UNCHANGED frontendVars

GetRange ==
    /\ answer' = getRange(induction)
    /\ UNCHANGED <<cfg, loop, flat, tree, induction, body, invariants>>
    /\ UNCHANGED memoryVars
    /\ UNCHANGED frontendVars

GetIterationCount ==
    /\ answer' \in IterationCounts(induction)
    /\ UNCHANGED <<cfg, loop, flat, tree, induction, body, invariants>>
    /\ UNCHANGED memoryVars
    /\ UNCHANGED frontendVars

InitInduction ==
    /\ induction \in InductionVariables
    /\ answer = NoAnswer
    /\ cfg = {}
    /\ loop = NoLoop
    /\ flat = <<>>
    /\ tree = NoTree
    /\ body = <<>>
    /\ invariants = {}
    /\ NoMemoryIR
    /\ NoFrontend

NextInduction ==
    \/ GetLowerBound
    \/ GetUpperBound
    \/ GetStep
    \/ GetRange
    \/ GetIterationCount

SpecInduction == InitInduction /\ [][NextInduction]_vars

\* the loop  for(i = 0; i < N; i += 1)  with a literal N and the condition
\* checked before the step
Canonical ==
    /\ induction.initialAssignment.a = LiteralValue(0)
    /\ induction.inductionStep.op = "add"
    /\ induction.inductionStep.b = LiteralValue(1)
    /\ induction.hasCondition
    /\ induction.comparison = "<"
    /\ isLiteralValue(induction.comparedTo)
    /\ induction.conditionCheckedBeforeStep

\* C18: for the canonical counting loop the induction variable reports the
\* lower bound 0, the step 1, the upper bound N and the iteration count N;
\* and a query is answered with an absent value when an operand it needs
\* (the initial value, the step, the compared-to value) is no literal.
C18_CanonicalCount ==
    /\ Canonical =>
          /\ answer.query = "getLowerBound" => (answer.present /\ answer.value = 0)
          /\ answer.query = "getStep" => (answer.present /\ answer.value = 1)
          /\ answer.query = "getUpperBound" =>
                (answer.present /\ answer.value = induction.comparedTo.literal)
          /\ answer.query = "getIterationCount" =>
                (answer.present /\ answer.value = induction.comparedTo.literal)
    /\ (answer.query \in {"getLowerBound", "getRange", "getIterationCount"}
          /\ ~isLiteralValue(induction.initialAssignment.a)) => ~answer.present
    /\ (answer.query \in {"getUpperBound", "getRange", "getIterationCount"}
          /\ ~isLiteralValue(induction.comparedTo)) => ~answer.present
    /\ (answer.query \in {"getStep", "getIterationCount"}
          /\ ~isLiteralValue(induction.inductionStep.b)) => ~answer.present

C18_Witness ==
    /\ Canonical
    /\ induction.comparedTo = LiteralValue(MaxCount)
    /\ answer = Present("getIterationCount", MaxCount)

(***************************************************************************)
(* The loop-invariant finder (ControlFlowLoop.h, lines 152-162).  body is  *)
(* the list of the loop's instructions, each computing its output local    *)
(* from two operands; a local no instruction of the loop writes is defined *)
(* outside the loop.  invariants holds the positions marked so far.        *)
(***************************************************************************)
\* instructions of a loop
MaxBody == 3

\* the locals written in the loop, and a local defined outside
FIRST == 1
SECOND == 2
OUTSIDE == 3

LoopInstructions ==
    {Instruction("op", "add", out, a, b) :
        out \in {FIRST, SECOND},
        a \in {INT_ONE, LocalValue(FIRST), LocalValue(SECOND), LocalValue(OUTSIDE)},
        b \in {INT_ONE, LocalValue(FIRST)}}

RECURSIVE LoopBodies(_)
LoopBodies(n) ==
    IF n = 0 THEN {<<>>}
    ELSE LoopBodies(n - 1) \cup
         {Append(l, i) : l \in {k \in LoopBodies(n - 1) : Len(k) = n - 1},
                         i \in LoopInstructions}

Positions == 1..Len(body)

\* the instructions of the loop that write the local
ProducersInLoop(local) == {j \in Positions : body[j].out = local}

\* the operand calculates the same value in every iteration: a literal, a
\* local defined outside the loop, or a local that only marked instructions
\* of the loop write
OperandInvariant_SomeProducer(val, marked) ==
    \/ ~checkLocal(val)
    \/ ProducersInLoop(val.local) = {}
    \/ ProducersInLoop(val.local) \cap marked # {}

OperandInvariant(val, marked) ==
    \/ ~checkLocal(val)
    \/ ProducersInLoop(val.local) \subseteq marked

\* the instructions not marked yet that can be marked now
Markable ==
    {i \in Positions \ invariants :
        OperandInvariant(body[i].a, invariants)
            /\ OperandInvariant(body[i].b, invariants)}

\* one step of findLoopInvariants: an instruction all of whose operands are
\* invariant is marked; the instructions are visited in any order, and
\* again, until none can be marked
MarkInvariant ==
    /\ \E i \in Markable : invariants' = invariants \cup {i}
    /\ UNCHANGED <<cfg, loop, flat, tree, induction, answer, body>>
    /\ UNCHANGED memoryVars
    /\ UNCHANGED frontendVars

\* findLoopInvariants returns
Marked == Markable = {}

InitInvariants ==
    /\ body \in LoopBodies(MaxBody)
    /\ invariants = {}
    /\ cfg = {}
    /\ loop = NoLoop
    /\ flat = <<>>
    /\ tree = NoTree
    /\ induction = NoInduction
    /\ answer = NoAnswer
    /\ NoMemoryIR
    /\ NoFrontend

NextInvariants == MarkInvariant

SpecInvariants == InitInvariants /\ [][NextInvariants]_vars

\* every operand of the instruction at position i is a literal, is defined
\* outside the loop, or is produced in the loop only by instructions of set
Closed(i, set) ==
    \A val \in {body[i].a, body[i].b} :
        \/ isLiteralValue(val)
        \/ ~\E j \in Positions : body[j].out = val.local
        \/ \A j \in Positions : body[j].out = val.local => j \in set

\* C19: the set findLoopInvariants returns, in whatever order the
\* instructions were visited, holds an instruction exactly if each of its
\* operands is a literal, is defined outside the loop or is produced only
\* by instructions of the set, and it is the least such set.
C19_LeastFixpoint ==
    Marked =>
        /\ \A i \in Positions : i \in invariants <=> Closed(i, invariants)
        /\ \A set \in SUBSET Positions :
              (\A i \in Positions : Closed(i, set) => i \in set) =>
                  invariants \subseteq set

\* the first instruction is marked only after the one behind it, and the
\* third, which reads its own output, never is
C19_Witness ==
    /\ Marked
    /\ body = <<Instruction("op", "add", SECOND, LocalValue(FIRST), INT_ONE),
                Instruction("op", "add", FIRST, LocalValue(OUTSIDE), INT_ONE),
                Instruction("op", "add", SECOND, LocalValue(SECOND), INT_ONE)>>
    /\ invariants = {1, 2}


(***************************************************************************)
(* Termination and the conjunction over the writers of isDerivedFromMemory.*)
(***************************************************************************)
\* the locals reached from a local through sources of move writers whose
\* target is not based on a Parameter, a Global or a StackAllocation
RECURSIVE MoveSources(_, _)
MoveSources(from, seen) ==
    LET next == {user.a.local : user \in
                    {u \in UNION {Writers(l) : l \in from} :
                        u.kind = "move" /\ checkLocal(u.a)}}
        fresh == {l \in next : ~BaseIsMemory(l)} \ seen
    IN  IF fresh = {} THEN seen ELSE MoveSources(fresh, seen \cup fresh)

\* the local lies on a cycle of moves between locals without a memory base
OnMoveCycle(local) ==
    /\ ~BaseIsMemory(local)
    /\ local \in MoveSources({local}, {})

\* C22 (as claimed): isDerivedFromMemory terminates on every def/use graph,
\* also on one where ordinary locals are defined by moves from one another
\* in a cycle: every call reaches a result.
C22_Terminates ==
    last.call = "isDerivedFromMemory" => last.outcome = "returned"

\* the claim's own case: a := b and b := a over two ordinary locals without
\* a memory base, and the call on b does not return
C22_MoveCycleOverflows ==
    /\ locals[BASE].kind = "Ordinary"
    /\ instrs = {Instruction("move", "none", ALIAS, LocalValue(POINTER), INT_ONE),
                 Instruction("move", "none", POINTER, LocalValue(ALIAS), INT_ONE)}
    /\ last.call = "isDerivedFromMemory"
    /\ last.target = POINTER
    /\ last.outcome = "overflow"

\* what holds of C22: a call fails to return only when the walk over the
\* move producers reaches a local on a cycle of moves
C22_TerminatesWithoutMoveCycle ==
    (last.call = "isDerivedFromMemory" /\ last.outcome # "returned") =>
        /\ last.outcome = "overflow"
        /\ ~BaseIsMemory(last.target)
        /\ \E l \in MoveSources({last.target}, {last.target}) : OnMoveCycle(l)

\* lines 26-29: a move whose source is a local
MoveFromLocal(user) == user.kind = "move" /\ checkLocal(user.a)

\* a writer that resets the result: a move from a local that is not
\* memory-derived, or a writer of an unrecognised shape
NonDerived(user) ==
    \/ MoveFromLocal(user) /\ isDerivedFromMemory(user.a.local) = "false"
    \/ Unrecognised(user)

\* C23 (as claimed): for a local not based on a Parameter, a Global or a
\* StackAllocation, isDerivedFromMemory is the conjunction over all
\* writers: it returns true only if the source of every move-from-local
\* writer is memory-derived and no writer has an unrecognised shape, one
\* non-derived or unrecognised writer makes it return false, and a local
\* without writers is reported as memory-derived.
C23_ConjunctionOverWriters ==
    OnDerivedLocal =>
        /\ (last.outcome = "returned" /\ last.bool) =>
              \A user \in Writers(last.target) :
                  /\ MoveFromLocal(user) => isDerivedFromMemory(user.a.local) = "true"
                  /\ ~Unrecognised(user)
        /\ (\E user \in Writers(last.target) : NonDerived(user)) =>
              (last.outcome = "returned" /\ ~last.bool)
        /\ Writers(last.target) = {} => (last.outcome = "returned" /\ last.bool)

\* what holds of C23: the conjunction, whenever the call returns
C23_ConjunctionWhenReturning ==
    (OnDerivedLocal /\ last.outcome = "returned") =>
        /\ last.bool =>
              \A user \in Writers(last.target) :
                  /\ MoveFromLocal(user) => isDerivedFromMemory(user.a.local) = "true"
                  /\ ~Unrecognised(user)
        /\ (\E user \in Writers(last.target) : NonDerived(user)) => ~last.bool
        /\ Writers(last.target) = {} => last.bool

(***************************************************************************)
(* The standard-library lookup (FrontendCompiler.h, lines 250-280).  The   *)
(* table of locations is a process-wide singleton that the first call of   *)
(* findStandardLibraryFiles fills.                                         *)
(***************************************************************************)
\* calls of findStandardLibraryFiles
MaxCalls == 3

\* the default location of the standard library and two further folders
DEFAULT == 1
CUSTOM == 2
BUILD == 3
Folders == {DEFAULT, CUSTOM, BUILD}

\* the files of StdlibFiles
FileKinds == {"configurationHeader", "precompiledHeader", "llvmModule", "spirvModule"}

\* what precompileStandardLibraryFiles stores in its destination folder
PrecompiledFiles == {"precompiledHeader", "llvmModule"}

\* what a folder holds at the start: nothing, the header alone, or
\* everything
Installations == [Folders -> {{}, {"configurationHeader"}, FileKinds}]

\* the additionalFolders a caller passes
FolderLists ==
    {<<>>, <<CUSTOM>>, <<BUILD>>, <<CUSTOM, BUILD>>, <<BUILD, CUSTOM>>}

\* the first folder of the list that holds the file, 0 (the empty path) if
\* none does
RECURSIVE Locate(_, _, _)
Locate(disk, file, folders) ==
    IF folders = <<>> THEN 0
    ELSE IF file \in disk[Head(folders)] THEN Head(folders)
    ELSE Locate(disk, file, Tail(folders))

\* the additional folders are searched, then the default location
determineFiles(disk, additionalFolders) ==
    LET folders == additionalFolders \o <<DEFAULT>>
    IN  StdlibFiles(Locate(disk, "configurationHeader", folders),
                    Locate(disk, "precompiledHeader", folders),
                    Locate(disk, "llvmModule", folders),
                    Locate(disk, "spirvModule", folders))

\* the answer of one call: the folders passed, the folders' content at the
\* time of the call, and the locations returned
Lookup(additionalFolders, disk, files) ==
    [additionalFolders |-> additionalFolders, disk |-> disk, files |-> files]

\* findStandardLibraryFiles that searches on every call
FindStandardLibraryFiles_Uncached ==
    /\ Len(lookups) < MaxCalls
    /\ \E additionalFolders \in FolderLists :
          /\ stdlib' = [initialised |-> TRUE,
                        files |-> determineFiles(installed, additionalFolders)]
          /\ lookups' = Append(lookups, Lookup(additionalFolders, installed, stdlib'.files))
    /\ UNCHANGED <<installed, resultHandles, sourceHandles, made>>
    /\ UNCHANGED memoryVars
    /\ UNCHANGED loopVars

\* findStandardLibraryFiles (line 274): the first call determines the
\* locations, every call returns the table
FindStandardLibraryFiles ==
    /\ Len(lookups) < MaxCalls
    /\ \E additionalFolders \in FolderLists :
          /\ stdlib' = IF stdlib.initialised THEN stdlib
                       ELSE [initialised |-> TRUE,
                             files |-> determineFiles(installed, additionalFolders)]
          /\ lookups' = Append(lookups, Lookup(additionalFolders, installed, stdlib'.files))
    /\ UNCHANGED <<installed, resultHandles, sourceHandles, made>>
    /\ UNCHANGED memoryVars
    /\ UNCHANGED loopVars

\* precompileStandardLibraryFiles (line 280): the precompiled header and
\* the LLVM module are stored in the destination folder
PrecompileStandardLibraryFiles ==
    /\ \E destinationFolder \in {CUSTOM, BUILD} :
          /\ ~(PrecompiledFiles \subseteq installed[destinationFolder])
          /\ installed' = [installed EXCEPT ![destinationFolder] = @ \cup PrecompiledFiles]
    /\ UNCHANGED <<stdlib, lookups, resultHandles, sourceHandles, made>>
    /\ UNCHANGED memoryVars
    /\ UNCHANGED loopVars

InitStdlib ==
    /\ installed \in Installations
    /\ stdlib = NoStdlib
    /\ lookups = <<>>
    /\ resultHandles = <<>>
    /\ sourceHandles = <<>>
    /\ made = NoOperation
    /\ NoMemoryIR
    /\ NoLoopAnalysis

NextStdlib ==
    \/ FindStandardLibraryFiles
    \/ PrecompileStandardLibraryFiles

SpecStdlib == InitStdlib /\ [][NextStdlib]_vars

\* C21: the standard-library file locations are cached process-wide: over
\* any sequence of findStandardLibraryFiles calls only the first call's
\* additionalFolders influence the result, and every later call returns
\* the same locations as the first call whatever folders it passes.
C21_CachedLocations ==
    \A i \in 1..Len(lookups) :
        /\ lookups[i].files = lookups[1].files
        /\ lookups[i].files = determineFiles(lookups[1].disk, lookups[1].additionalFolders)

\* a later call passes folders that a search would find other files in, and
\* returns the locations of the first call
C21_Witness ==
    /\ Len(lookups) >= 2
    /\ lookups[2].additionalFolders # lookups[1].additionalFolders
    /\ determineFiles(lookups[2].disk, lookups[2].additionalFolders) # lookups[1].files
    /\ lookups[2].files = lookups[1].files
    /\ lookups[1].files # NotFound

(***************************************************************************)
(* PrecompilationResult and PrecompilationSource (FrontendCompiler.h,      *)
(* lines 48-180).  A handle owns compilation data through a pointer; the   *)
(* data are told apart by their identity.                                  *)
(***************************************************************************)
\* handles of each class alive at once
MaxHandles == 3

\* nullptr
NULL == 0
\* the compilation data a caller can allocate
DataIds == {1, 2, 3}

\* a handle: its data member (line 115, line 179)
Handle(data) == [data |-> data]

\* the data no handle owns
Unowned ==
    DataIds \ ({resultHandles[r].data : r \in 1..Len(resultHandles)}
               \cup {sourceHandles[s].data : s \in 1..Len(sourceHandles)})

\* the pointers a caller can pass: null, or data of its own
Pointers == {NULL} \cup Unowned

\* the outcome of an operation: the pointer passed or returned, the handle
\* constructed or acted on, the handle moved from, the boolean returned
Operation(call, outcome, argument, object, from, bool) ==
    [call |-> call, outcome |-> outcome, argument |-> argument,
     object |-> object, from |-> from, bool |-> bool]

\* operator bool (lines 109-112)
operatorBool(res) == res.data # NULL

\* PrecompilationResult() (line 52)
DefaultResult ==
    /\ Len(resultHandles) < MaxHandles
    /\ resultHandles' = Append(resultHandles, Handle(NULL))
    /\ made' = Operation("PrecompilationResult()", "returned", NULL,
                         Len(resultHandles) + 1, 0, FALSE)
    /\ UNCHANGED <<installed, stdlib, lookups, sourceHandles>>
    /\ UNCHANGED memoryVars
    /\ UNCHANGED loopVars

\* PrecompilationResult(std::unique_ptr&&) (lines 54-58)
ResultFromData ==
    /\ Len(resultHandles) < MaxHandles
    /\ \E data \in Pointers :
          IF data = NULL
          THEN /\ made' = Operation("PrecompilationResult(data)", "error", data, 0, 0, FALSE)
               /\ UNCHANGED resultHandles
          ELSE /\ resultHandles' = Append(resultHandles, Handle(data))
               /\ made' = Operation("PrecompilationResult(data)", "returned", data,
                                    Len(resultHandles) + 1, 0, FALSE)
    /\ UNCHANGED <<installed, stdlib, lookups, sourceHandles>>
    /\ UNCHANGED memoryVars
    /\ UNCHANGED loopVars

\* PrecompilationResult(file) and PrecompilationResult(TemporaryFile&&)
\* (lines 60-68): make_unique, then the constructor of lines 54-58
ResultFromFile ==
    /\ Len(resultHandles) < MaxHandles
    /\ \E data \in Unowned :
          /\ resultHandles' = Append(resultHandles, Handle(data))
          /\ made' = Operation("PrecompilationResult(file)", "returned", data,
                               Len(resultHandles) + 1, 0, FALSE)
    /\ UNCHANGED <<installed, stdlib, lookups, sourceHandles>>
    /\ UNCHANGED memoryVars
    /\ UNCHANGED loopVars

\* the move constructor (line 71) and the move assignment (line 74) of a
\* result: target 0 constructs a new handle
MoveResult ==
    /\ \E from \in 1..Len(resultHandles), target \in 0..Len(resultHandles) :
          /\ target # from
          /\ target = 0 => Len(resultHandles) < MaxHandles
          /\ LET emptied == [resultHandles EXCEPT ![from] = Handle(NULL)]
             IN  IF target = 0
                 THEN /\ resultHandles' = Append(emptied, resultHandles[from])
                      /\ made' = Operation("PrecompilationResult(PrecompilationResult&&)",
                                           "returned", resultHandles[from].data,
                                           Len(resultHandles) + 1, from, FALSE)
                 ELSE /\ resultHandles' = [emptied EXCEPT ![target] = resultHandles[from]]
                      /\ made' = Operation("PrecompilationResult::operator=",
                                           "returned", resultHandles[from].data,
                                           target, from, FALSE)
    /\ UNCHANGED <<installed, stdlib, lookups, sourceHandles>>
    /\ UNCHANGED memoryVars
    /\ UNCHANGED loopVars

\* release (lines 99-102): the data is moved out to the caller
Release ==
    /\ \E r \in 1..Len(resultHandles) :
          /\ resultHandles' = [resultHandles EXCEPT ![r] = Handle(NULL)]
          /\ made' = Operation("release", "returned", resultHandles[r].data, r, 0, FALSE)
    /\ UNCHANGED <<installed, stdlib, lookups, sourceHandles>>
    /\ UNCHANGED memoryVars
    /\ UNCHANGED loopVars

\* operator bool applied to a result (lines 109-112)
OperatorBool ==
    /\ \E r \in 1..Len(resultHandles) :
          made' = Operation("operator bool", "returned", NULL, r, 0,
                            operatorBool(resultHandles[r]))
    /\ UNCHANGED <<installed, stdlib, lookups, resultHandles, sourceHandles>>
    /\ UNCHANGED memoryVars
    /\ UNCHANGED loopVars

\* lines 126-127: Source has no data!
SourceThrows(data) == data = NULL

\* PrecompilationSource(std::shared_ptr&&) (lines 124-128)
SourceFromData ==
    /\ Len(sourceHandles) < MaxHandles
    /\ \E data \in Pointers :
          IF SourceThrows(data)
          THEN /\ made' = Operation("PrecompilationSource(data)", "error", data, 0, 0, FALSE)
               /\ UNCHANGED sourceHandles
          ELSE /\ sourceHandles' = Append(sourceHandles, Handle(data))
               /\ made' = Operation("PrecompilationSource(data)", "returned", data,
                                    Len(sourceHandles) + 1, 0, FALSE)
    /\ UNCHANGED <<installed, stdlib, lookups, resultHandles>>
    /\ UNCHANGED memoryVars
    /\ UNCHANGED loopVars

\* PrecompilationSource(std::istream&) and PrecompilationSource(file)
\* (lines 130-138): make_unique, then the constructor of lines 124-128
SourceFromFile ==
    /\ Len(sourceHandles) < MaxHandles
    /\ \E data \in Unowned :
          /\ sourceHandles' = Append(sourceHandles, Handle(data))
          /\ made' = Operation("PrecompilationSource(file)", "returned", data,
                               Len(sourceHandles) + 1, 0, FALSE)
    /\ UNCHANGED <<installed, stdlib, lookups, resultHandles>>
    /\ UNCHANGED memoryVars
    /\ UNCHANGED loopVars

\* PrecompilationSource(PrecompilationResult&&) that leaves the result its
\* data
SourceFromResult_KeepsResult ==
    /\ Len(sourceHandles) < MaxHandles
    /\ \E res \in 1..Len(resultHandles) :
          LET data == resultHandles[res].data
          IN  /\ UNCHANGED resultHandles
              /\ IF SourceThrows(data)
                 THEN /\ made' = Operation("PrecompilationSource(PrecompilationResult&&)",
                                           "error", data, 0, res, FALSE)
                      /\ UNCHANGED sourceHandles
                 ELSE /\ sourceHandles' = Append(sourceHandles, Handle(data))
                      /\ made' = Operation("PrecompilationSource(PrecompilationResult&&)",
                                           "returned", data, Len(sourceHandles) + 1,
                                           res, FALSE)
    /\ UNCHANGED <<installed, stdlib, lookups>>
    /\ UNCHANGED memoryVars
    /\ UNCHANGED loopVars

\* PrecompilationSource(PrecompilationResult&&) (lines 140-142): the
\* result's data is moved into the shared pointer handed to the constructor
\* of lines 124-128
SourceFromResult ==
    /\ Len(sourceHandles) < MaxHandles
    /\ \E res \in 1..Len(resultHandles) :
          LET data == resultHandles[res].data
          IN  /\ resultHandles' = [resultHandles EXCEPT ![res] = Handle(NULL)]
              /\ IF SourceThrows(data)
                 THEN /\ made' = Operation("PrecompilationSource(PrecompilationResult&&)",
                                           "error", data, 0, res, FALSE)
                      /\ UNCHANGED sourceHandles
                 ELSE /\ sourceHandles' = Append(sourceHandles, Handle(data))
                      /\ made' = Operation("PrecompilationSource(PrecompilationResult&&)",
                                           "returned", data, Len(sourceHandles) + 1,
                                           res, FALSE)
    /\ UNCHANGED <<installed, stdlib, lookups>>
    /\ UNCHANGED memoryVars
    /\ UNCHANGED loopVars

\* the move constructor (line 145) and the move assignment (line 148) of a
\* source: target 0 constructs a new handle
MoveSource ==
    /\ \E from \in 1..Len(sourceHandles), target \in 0..Len(sourceHandles) :
          /\ target # from
          /\ target = 0 => Len(sourceHandles) < MaxHandles
          /\ LET emptied == [sourceHandles EXCEPT ![from] = Handle(NULL)]
             IN  IF target = 0
                 THEN /\ sourceHandles' = Append(emptied, sourceHandles[from])
                      /\ made' = Operation("PrecompilationSource(PrecompilationSource&&)",
                                           "returned", sourceHandles[from].data,
                                           Len(sourceHandles) + 1, from, FALSE)
                 ELSE /\ sourceHandles' = [emptied EXCEPT ![target] = sourceHandles[from]]
                      /\ made' = Operation("PrecompilationSource::operator=",
                                           "returned", sourceHandles[from].data,
                                           target, from, FALSE)
    /\ UNCHANGED <<installed, stdlib, lookups, resultHandles>>
    /\ UNCHANGED memoryVars
    /\ UNCHANGED loopVars

InitHandles ==
    /\ installed = <<>>
    /\ stdlib = NoStdlib
    /\ lookups = <<>>
    /\ resultHandles = <<>>
    /\ sourceHandles = <<>>
    /\ made = NoOperation
    /\ NoMemoryIR
    /\ NoLoopAnalysis

NextHandles ==
    \/ DefaultResult
    \/ ResultFromData
    \/ ResultFromFile
    \/ MoveResult
    \/ Release
    \/ OperatorBool
    \/ SourceFromData
    \/ SourceFromFile
    \/ SourceFromResult
    \/ MoveSource

SpecHandles == InitHandles /\ [][NextHandles]_vars

\* the move operations of a source
SourceMoves ==
    {"PrecompilationSource(PrecompilationSource&&)", "PrecompilationSource::operator="}

\* the constructors taking a data pointer
FromData == {"PrecompilationResult(data)", "PrecompilationSource(data)"}

\* constructing from a null data pointer fails; converting an empty result
\* fails, converting a result holding data hands the data to the source and
\* leaves the result empty; a result is empty after release
Conversions ==
    /\ (made.call \in FromData /\ made.argument = NULL) => made.outcome = "error"
    /\ made.call = "PrecompilationSource(PrecompilationResult&&)" =>
          IF made.argument = NULL
          THEN made.outcome = "error"
          ELSE /\ made.outcome = "returned"
               /\ sourceHandles[made.object].data = made.argument
               /\ ~operatorBool(resultHandles[made.from])
    /\ made.call = "release" => ~operatorBool(resultHandles[made.object])

\* C24 (as claimed): a PrecompilationSource always holds data once
\* constructed; constructing a source or a result from a null data pointer
\* fails, so converting an empty result into a source fails; converting a
\* result holding data transfers the data and leaves the result empty, and
\* a result is empty after release().
C24_SourceAlwaysHoldsData ==
    /\ \A s \in 1..Len(sourceHandles) : sourceHandles[s].data # NULL
    /\ Conversions

\* C24 (amended): a PrecompilationSource holds data when it is constructed
\* from a data pointer, a stream, a file or a result, and keeps it until it
\* is moved from: a source is without data only as the moved-from operand of
\* the move constructor or move assignment, or as the target of a move from
\* such a source.  Constructing from a null data pointer fails, converting
\* an empty result fails, converting a result holding data transfers the
\* data and leaves the result empty, and a result is empty after release().
C24_SourceHoldsDataUntilMoved ==
    [][/\ \A s \in 1..Len(sourceHandles') :
              sourceHandles'[s].data = NULL =>
                  \/ s <= Len(sourceHandles) /\ sourceHandles[s].data = NULL
                  \/ /\ made'.call \in SourceMoves
                     /\ \/ made'.from = s
                        \/ made'.object = s /\ made'.argument = NULL
       /\ Conversions']_vars

\* a result holding data was converted into a source, next to a source that
\* was moved from
C24_Witness ==
    /\ made.call = "PrecompilationSource(PrecompilationResult&&)"
    /\ made.outcome = "returned"
    /\ made.argument # NULL
    /\ sourceHandles[made.object].data = made.argument
    /\ ~operatorBool(resultHandles[made.from])
    /\ \E s \in 1..Len(sourceHandles) : sourceHandles[s].data = NULL

====
